---- MODULE Spec2Model ----
(***************************************************************************)
(* The "greedy" I/O scheduler of src/pkg/greedy-iosched.c as a state       *)
(* machine.  The two queues are modelled as the source keeps them: as      *)
(* circular doubly linked lists (struct list_head) whose links are the     *)
(* functions next and prev over the two list heads and the requests'       *)
(* queuelist members.  The queues "read front to back" are the derived     *)
(* sequences Higher and Lower.                                             *)
(*                                                                         *)
(* Widths.  sector_t is a 64 bit unsigned integer and up_dist/down_dist    *)
(* are 32 bit signed ints.  The model keeps both widths and the ratio      *)
(* "the distance is narrower than the sector" at a scale a model checker   *)
(* can enumerate: a sector has SectorBits bits, an int has IntBits bits.   *)
(* Requests lie inside the device (start + length never wraps sector_t).   *)
(***************************************************************************)
EXTENDS Integers, Sequences, FiniteSets

\* ------------------------------------------------------------------ bounds
\* Number of requests the host creates in one run.
NumReq == 3
\* Largest start sector of a request.
MaxSector == 2
\* Length of a long request, in sectors (a short one has 1).
MaxLen == 2

\* ------------------------------------------------- widths (scaled, see top)
\* sector_t prev_pos: unsigned, SectorBits wide.
SectorBits == 4
\* int up_dist, down_dist: signed, IntBits wide.
IntBits == 3

\* ------------------------------------------------------------------- nodes
\* NULL, as returned by former/latter.
NONE == 0
\* &gd->higher and &gd->lower: the two list heads.
HIGHER == -1
LOWER == -2

\* The sweep scenario (SpecSweep) needs one request and one sector more than
\* the other runs: one request has to be dispatched before Lower can fill.
MaxReq == NumReq + 1
Requests == 1..MaxReq
Heads == {HIGHER, LOWER}
Nodes == Heads \cup Requests
Sectors == 0..MaxSector
SweepSectors == 0..(MaxSector + 1)
Lens == {1, MaxLen}

VARIABLES
    next,        \* list_head.next of every node
    prev,        \* list_head.prev of every node
    prev_pos,    \* gd->prev_pos
    reqs,        \* the requests created so far: <<[pos, sectors], ...>>, request i is reqs[i]
    dispatch_q,  \* the request queue's dispatch list (elv_dispatch_add_tail)
    nmerged,     \* per request: how many greedy_merged_requests calls removed it
    status,      \* "running", "exited" (exit_queue returned), "BUG" (BUG_ON fired)
    last         \* the last call: [op, rq (argument), ret (returned request or NONE),
                 \* from (the list a dispatch took ret from), rev (see Reversal)]

vars == <<next, prev, prev_pos, reqs, dispatch_q, nmerged, status, last>>

\* ------------------------------------------------------------- arithmetic
\* A value stored in a sector_t.
ToSector(x) == x % (2 ^ SectorBits)

\* A sector_t value stored in an int: the low IntBits bits, two's complement.
ToInt(x) ==
    LET m == x % (2 ^ IntBits)
    IN  IF m >= 2 ^ (IntBits - 1) THEN m - 2 ^ IntBits ELSE m

\* blk_rq_pos(rq), blk_rq_sectors(rq)
blk_rq_pos(rq) == reqs[rq].pos
blk_rq_sectors(rq) == reqs[rq].sectors

\* Mutant of rq_end_sector: the start of the request, not its end.
rq_end_sector_start(rq) == ToSector(blk_rq_pos(rq))

\* rq_end_sector(rq) == blk_rq_pos(rq) + blk_rq_sectors(rq), a sector_t
rq_end_sector(rq) == ToSector(blk_rq_pos(rq) + blk_rq_sectors(rq))

\* ------------------------------------------------------------ list_head
\* A pair of link functions.
Links(nx, pv) == [next |-> nx, prev |-> pv]

\* INIT_LIST_HEAD(e)
INIT_LIST_HEAD(l, e) ==
    Links([l.next EXCEPT ![e] = e], [l.prev EXCEPT ![e] = e])

\* list_empty(head)
list_empty(head) == next[head] = head

\* list_first_entry(head)
list_first_entry(head) == next[head]

\* Mutant of list_add: the store new->next = next is missing.
list_add_no_next(l, new, head) ==
    LET nxt == l.next[head]
        pv1 == [l.prev EXCEPT ![nxt] = new]
        pv2 == [pv1 EXCEPT ![new] = head]
        nx2 == [l.next EXCEPT ![head] = new]
    IN  Links(nx2, pv2)

\* list_add(new, head): __list_add(new, head, head->next); new goes right
\* AFTER head.  The four stores are made in the source's order.
list_add(l, new, head) ==
    LET nxt == l.next[head]
        pv1 == [l.prev EXCEPT ![nxt] = new]
        nx1 == [l.next EXCEPT ![new] = nxt]
        pv2 == [pv1 EXCEPT ![new] = head]
        nx2 == [nx1 EXCEPT ![head] = new]
    IN  Links(nx2, pv2)

\* Mutant of list_del_init: the entry is left where it is.
list_del_init_forgotten(l, entry) == l

\* list_del_init(entry): __list_del(entry->prev, entry->next); INIT_LIST_HEAD(entry)
list_del_init(l, entry) ==
    LET p == l.prev[entry]
        n == l.next[entry]
        pv1 == [l.prev EXCEPT ![n] = p]
        nx1 == [l.next EXCEPT ![p] = n]
    IN  INIT_LIST_HEAD(Links(nx1, pv1), entry)

\* The entries of the list at head, front to back (following next until the
\* head comes round again; fuel bounds the walk).
RECURSIVE WalkFrom(_, _, _)
WalkFrom(n, head, fuel) ==
    IF n = head \/ fuel = 0 THEN <<>>
    ELSE <<n>> \o WalkFrom(next[n], head, fuel - 1)

Walk(head) == WalkFrom(next[head], head, MaxReq + 1)

Higher == Walk(HIGHER)
Lower == Walk(LOWER)

\* The requests pending in the scheduler.
Pending == {r \in Requests : next[r] # r}

\* ---------------------------------------------------------------- Init
\* Mutant of Init: gd->prev_pos is left as kmalloc_node returned it.
Init_prev_pos_unset ==
    /\ next = [n \in Nodes |-> n]
    /\ prev = [n \in Nodes |-> n]
    /\ prev_pos \in 0..(2 ^ SectorBits - 1)
    /\ reqs = <<>>
    /\ dispatch_q = <<>>
    /\ nmerged = [r \in Requests |-> 0]
    /\ status = "running"
    /\ last = [op |-> "init", rq |-> NONE, ret |-> NONE,
              from |-> NONE, rev |-> FALSE]

\* greedy_init_queue succeeded: both heads initialised, prev_pos = 0.  No
\* request exists yet; the block layer hands every new request over with its
\* queuelist initialised (self linked).
Init ==
    /\ next = [n \in Nodes |-> n]
    /\ prev = [n \in Nodes |-> n]
    /\ prev_pos = 0
    /\ reqs = <<>>
    /\ dispatch_q = <<>>
    /\ nmerged = [r \in Requests |-> 0]
    /\ status = "running"
    /\ last = [op |-> "init", rq |-> NONE, ret |-> NONE,
              from |-> NONE, rev |-> FALSE]

\* ------------------------------------------------------------ add_request
\* add_to_higher's list_for_each: the first entry whose sector is greater
\* than the new request's, or the head itself when the loop runs out.
RECURSIVE ScanHigher(_, _)
ScanHigher(p, rqpos) ==
    IF p = HIGHER THEN p
    ELSE IF blk_rq_pos(p) > rqpos THEN p
    ELSE ScanHigher(next[p], rqpos)

\* add_to_lower's list_for_each: the first entry whose sector is smaller.
RECURSIVE ScanLower(_, _)
ScanLower(p, rqpos) ==
    IF p = LOWER THEN p
    ELSE IF blk_rq_pos(p) < rqpos THEN p
    ELSE ScanLower(next[p], rqpos)

\* add_to_higher(rq, gd): list_add(&rq->queuelist, pos)
add_to_higher(rq, rqpos) ==
    list_add(Links(next, prev), rq, ScanHigher(next[HIGHER], rqpos))

\* add_to_lower(rq, gd): list_add(&rq->queuelist, pos)
add_to_lower(rq, rqpos) ==
    list_add(Links(next, prev), rq, ScanLower(next[LOWER], rqpos))

\* Mutant of greedy_add_request: a request at prev_pos itself goes to Lower.
greedy_add_request_ge(rq, rqpos) ==
    IF prev_pos >= rqpos THEN add_to_lower(rq, rqpos)
    ELSE add_to_higher(rq, rqpos)

\* greedy_add_request(q, rq)
greedy_add_request(rq, rqpos) ==
    IF prev_pos > rqpos THEN add_to_lower(rq, rqpos)
    ELSE add_to_higher(rq, rqpos)

\* Mutant of Insert: adding a request moves prev_pos to it.
Insert_moves_prev_pos(pos, sectors) ==
    /\ status = "running"
    /\ Len(reqs) < NumReq
    /\ LET rq == Len(reqs) + 1
           l == greedy_add_request(rq, pos)
       IN  /\ next' = l.next
           /\ prev' = l.prev
           /\ reqs' = Append(reqs, [pos |-> pos, sectors |-> sectors])
           /\ last' = [op |-> "insert", rq |-> rq, ret |-> NONE,
              from |-> NONE, rev |-> FALSE]
    /\ prev_pos' = pos
    /\ UNCHANGED <<dispatch_q, nmerged, status>>

\* The host creates request Len(reqs) + 1 at sector pos with the given
\* length and adds it to the scheduler.
Insert(pos, sectors) ==
    /\ status = "running"
    /\ Len(reqs) < NumReq
    /\ LET rq == Len(reqs) + 1
           l == greedy_add_request(rq, pos)
       IN  /\ next' = l.next
           /\ prev' = l.prev
           /\ reqs' = Append(reqs, [pos |-> pos, sectors |-> sectors])
           /\ last' = [op |-> "insert", rq |-> rq, ret |-> NONE,
              from |-> NONE, rev |-> FALSE]
    /\ UNCHANGED <<prev_pos, dispatch_q, nmerged, status>>

\* --------------------------------------------------------------- dispatch
\* int up_dist = blk_rq_pos(target) - gd->prev_pos
up_dist == ToInt(ToSector(blk_rq_pos(list_first_entry(HIGHER)) - prev_pos))

\* int down_dist = gd->prev_pos - blk_rq_pos(lower)
down_dist == ToInt(ToSector(prev_pos - blk_rq_pos(list_first_entry(LOWER))))

\* Mutant of DispatchTarget: without the "else if" branch that serves Lower
\* when Higher is empty.
DispatchTarget_no_lower_only ==
    IF ~list_empty(HIGHER)
    THEN IF ~list_empty(LOWER)
         THEN IF up_dist > down_dist
              THEN list_first_entry(LOWER)
              ELSE list_first_entry(HIGHER)
         ELSE list_first_entry(HIGHER)
    ELSE NONE

\* The request greedy_dispatch chooses, NONE where it returns 0.
DispatchTarget ==
    IF ~list_empty(HIGHER)
    THEN IF ~list_empty(LOWER)
         THEN IF up_dist > down_dist
              THEN list_first_entry(LOWER)
              ELSE list_first_entry(HIGHER)
         ELSE list_first_entry(HIGHER)
    ELSE IF ~list_empty(LOWER)
         THEN list_first_entry(LOWER)
         ELSE NONE

\* Mutant of greedy_dispatch: an unforced call leaves the requests where
\* they are.
greedy_dispatch_only_forced(force) == IF force THEN DispatchTarget ELSE NONE

\* Mutant of greedy_dispatch: a sweep, which stays with the list of the
\* previous dispatch while that list has entries.
greedy_dispatch_sweep(force) ==
    IF last.op = "dispatch" /\ last.ret # NONE /\ ~list_empty(last.from)
    THEN list_first_entry(last.from)
    ELSE DispatchTarget

\* The request a call greedy_dispatch(q, force) chooses: force is not read.
greedy_dispatch(force) == DispatchTarget

\* Mutant of elv_dispatch_add_tail: the request goes to the front.
elv_dispatch_add_front(q, rq) == <<rq>> \o q

\* elv_dispatch_add_tail(q, target)
elv_dispatch_add_tail(q, rq) == Append(q, rq)

\* The list target is the first entry of when greedy_dispatch takes it.
TargetList(target) ==
    IF ~list_empty(HIGHER) /\ list_first_entry(HIGHER) = target
    THEN HIGHER ELSE LOWER

\* The call right before was a dispatch that took a request from the other
\* list, and that list still has entries.
Reversal(from) ==
    /\ last.op = "dispatch"
    /\ last.ret # NONE
    /\ last.from # from
    /\ ~list_empty(last.from)

\* greedy_dispatch(q, force)
Dispatch(force) ==
    /\ status = "running"
    /\ LET target == greedy_dispatch(force)
       IN  IF target = NONE
           THEN /\ last' = [op |-> "dispatch", rq |-> NONE, ret |-> NONE,
                            from |-> NONE, rev |-> FALSE]
                /\ UNCHANGED <<next, prev, prev_pos, dispatch_q>>
           ELSE LET l == list_del_init(Links(next, prev), target)
                IN  /\ next' = l.next
                    /\ prev' = l.prev
                    /\ dispatch_q' = elv_dispatch_add_tail(dispatch_q, target)
                    /\ prev_pos' = rq_end_sector(target)
                    /\ last' = [op |-> "dispatch", rq |-> NONE, ret |-> target,
                                from |-> TargetList(target),
                                rev |-> Reversal(TargetList(target))]
    /\ UNCHANGED <<reqs, nmerged, status>>

\* -------------------------------------------------------- merged_requests
\* Mutant of MergeVictim: the surviving request is taken off instead.
MergeVictim_rq(rq, nxt) == rq

\* The request greedy_merged_requests(q, rq, next) takes off its queue.
MergeVictim(rq, nxt) == nxt

\* greedy_merged_requests(q, rq, next): the host folds nxt into rq, both
\* pending.
MergedRequests(rq, nxt) ==
    /\ status = "running"
    /\ rq \in Pending
    /\ nxt \in Pending
    /\ rq # nxt
    /\ LET v == MergeVictim(rq, nxt)
           l == list_del_init(Links(next, prev), v)
       IN  /\ next' = l.next
           /\ prev' = l.prev
           /\ nmerged' = [nmerged EXCEPT ![v] = @ + 1]
           /\ last' = [op |-> "merge", rq |-> nxt, ret |-> NONE,
              from |-> NONE, rev |-> FALSE]
    /\ UNCHANGED <<prev_pos, reqs, dispatch_q, status>>

\* ---------------------------------------------------------- former/latter
\* Mutant of greedy_former_request: the head of Lower is not recognised.
greedy_former_request_higher_only(rq) ==
    IF prev[rq] = HIGHER THEN NONE ELSE prev[rq]

\* greedy_former_request(q, rq)
greedy_former_request(rq) ==
    IF prev[rq] = HIGHER \/ prev[rq] = LOWER THEN NONE ELSE prev[rq]

\* greedy_latter_request(q, rq)
greedy_latter_request(rq) ==
    IF next[rq] = HIGHER \/ next[rq] = LOWER THEN NONE ELSE next[rq]

FormerRequest(rq) ==
    /\ status = "running"
    /\ rq \in Pending
    /\ last' = [op |-> "former", rq |-> rq, ret |-> greedy_former_request(rq),
              from |-> NONE, rev |-> FALSE]
    /\ UNCHANGED <<next, prev, prev_pos, reqs, dispatch_q, nmerged, status>>

LatterRequest(rq) ==
    /\ status = "running"
    /\ rq \in Pending
    /\ last' = [op |-> "latter", rq |-> rq, ret |-> greedy_latter_request(rq),
              from |-> NONE, rev |-> FALSE]
    /\ UNCHANGED <<next, prev, prev_pos, reqs, dispatch_q, nmerged, status>>

\* ------------------------------------------------------------- exit_queue
\* Mutant of greedy_exit_queue: without the second BUG_ON.
greedy_exit_queue_higher_only ==
    IF ~list_empty(HIGHER) THEN "BUG" ELSE "exited"

\* greedy_exit_queue(e): the two BUG_ONs, then kfree.
greedy_exit_queue ==
    IF ~list_empty(HIGHER) THEN "BUG"
    ELSE IF ~list_empty(LOWER) THEN "BUG"
    ELSE "exited"

ExitQueue ==
    /\ status = "running"
    /\ status' = greedy_exit_queue
    /\ last' = [op |-> "exit", rq |-> NONE, ret |-> NONE,
              from |-> NONE, rev |-> FALSE]
    /\ UNCHANGED <<next, prev, prev_pos, reqs, dispatch_q, nmerged>>

\* ------------------------------------------------------------------ Next
InsertAny == \E pos \in Sectors, sectors \in Lens : Insert(pos, sectors)
DispatchAny == \E force \in BOOLEAN : Dispatch(force)
MergeAny == \E rq \in Requests, nxt \in Requests : MergedRequests(rq, nxt)
FormerAny == \E rq \in Requests : FormerRequest(rq)
LatterAny == \E rq \in Requests : LatterRequest(rq)

Next ==
    \/ InsertAny
    \/ DispatchAny
    \/ MergeAny
    \/ FormerAny
    \/ LatterAny
    \/ ExitQueue

Spec == Init /\ [][Next]_vars

\* A batch: the host inserts every request before it calls dispatch for the
\* first time, and then only dispatches.
BatchInsert == last.op # "dispatch" /\ InsertAny
BatchDispatch == DispatchAny
BatchNext == BatchInsert \/ BatchDispatch
SpecBatch == Init /\ [][BatchNext]_vars

\* The host keeps calling dispatch: a dispatch that would change the state is
\* not put off for ever.  The operations that decide whether the queues drain
\* are the ones that change them or end the run; the two neighbour queries
\* change nothing of the scheduler and are left out.
LiveNext ==
    \/ InsertAny
    \/ DispatchAny
    \/ MergeAny
    \/ ExitQueue

LiveSpec == Init /\ [][LiveNext]_vars /\ WF_vars(DispatchAny)

\* The host adds requests until the second dispatch and then only
\* dispatches: from then on every dispatch follows a dispatch.
SweepInsert(pos, sectors) ==
    /\ status = "running"
    /\ Len(dispatch_q) <= 1
    /\ Len(reqs) < MaxReq
    /\ LET rq == Len(reqs) + 1
           l == greedy_add_request(rq, pos)
       IN  /\ next' = l.next
           /\ prev' = l.prev
           /\ reqs' = Append(reqs, [pos |-> pos, sectors |-> sectors])
           /\ last' = [op |-> "insert", rq |-> rq, ret |-> NONE,
                       from |-> NONE, rev |-> FALSE]
    /\ UNCHANGED <<prev_pos, dispatch_q, nmerged, status>>

SweepInsertAny == \E pos \in SweepSectors, sectors \in Lens : SweepInsert(pos, sectors)
SweepDispatch == Pending # {} /\ DispatchAny
SweepNext == SweepInsertAny \/ SweepDispatch
SpecSweep == Init /\ [][SweepNext]_vars

\* The host breaks the contract of elevator_add_req_fn: it hands in a request
\* that is still linked into Higher or Lower.  greedy_add_request runs as for
\* any request: it tests nothing about rq->queuelist and returns nothing.
Reinsert(rq) ==
    /\ status = "running"
    /\ rq \in Pending
    /\ LET l == greedy_add_request(rq, blk_rq_pos(rq))
       IN  /\ next' = l.next
           /\ prev' = l.prev
    /\ last' = [op |-> "reinsert", rq |-> rq, ret |-> NONE,
              from |-> NONE, rev |-> FALSE]
    /\ UNCHANGED <<prev_pos, reqs, dispatch_q, nmerged, status>>

ReinsertAny == \E rq \in Requests : Reinsert(rq)

\* The run is followed up to the first such call: after it the lists are no
\* longer rings and list_for_each need not end.
MisuseInsert == last.op # "reinsert" /\ InsertAny
MisuseDispatch == last.op # "reinsert" /\ DispatchAny
MisuseMerge == last.op # "reinsert" /\ MergeAny
MisuseReinsert == last.op # "reinsert" /\ ReinsertAny

MisuseNext ==
    \/ MisuseInsert
    \/ MisuseDispatch
    \/ MisuseMerge
    \/ MisuseReinsert

SpecMisuse == Init /\ [][MisuseNext]_vars

\* ================================================================ claims
Abs(x) == IF x < 0 THEN 0 - x ELSE x
Count(seq, r) == Cardinality({i \in DOMAIN seq : seq[i] = r})
Without(seq, r) == SelectSeq(seq, LAMBDA x : x # r)
Created == 1..Len(reqs)
BothNonEmpty == Higher # <<>> /\ Lower # <<>>
QueuesEmpty == Higher = <<>> /\ Lower = <<>>

\* C1: in every reachable state Higher, read front to back, is non-decreasing
\* by start sector and Lower is non-increasing.
C1_QueuesSorted ==
    /\ \A i, j \in DOMAIN Higher :
          i < j => blk_rq_pos(Higher[i]) <= blk_rq_pos(Higher[j])
    /\ \A i, j \in DOMAIN Lower :
          i < j => blk_rq_pos(Lower[i]) >= blk_rq_pos(Lower[j])

\* C2: insertion is stable: of two pending requests of one queue with the same
\* start sector, the one inserted earlier (the smaller request number) is nearer
\* the head.
C2_StableInsertion ==
    /\ \A i, j \in DOMAIN Higher :
          (i < j /\ blk_rq_pos(Higher[i]) = blk_rq_pos(Higher[j]))
              => Higher[i] < Higher[j]
    /\ \A i, j \in DOMAIN Lower :
          (i < j /\ blk_rq_pos(Lower[i]) = blk_rq_pos(Lower[j]))
              => Lower[i] < Lower[j]

\* C3: a dispatch with both queues non-empty returns the head with the smaller
\* absolute distance |head.start_sector - last_position|, Higher's head on a tie.
C3_NearestHead ==
    [][(last'.op = "dispatch" /\ BothNonEmpty) =>
          LET h == Higher[1]
              l == Lower[1]
          IN  last'.ret = IF Abs(blk_rq_pos(l) - prev_pos) < Abs(blk_rq_pos(h) - prev_pos)
                          THEN l ELSE h]_vars

\* C4: requests inserted before the first dispatch are all in Higher and
\* successive dispatches return them in ascending start sector order.
C4_BatchAscending ==
    /\ Lower = <<>>
    /\ \A i, j \in DOMAIN dispatch_q :
          i < j => blk_rq_pos(dispatch_q[i]) <= blk_rq_pos(dispatch_q[j])

\* C5: immediately after a dispatch that returns request r, last_position is
\* r.start_sector + r.length_sectors.
C5_LastPositionIsEnd ==
    (last.op = "dispatch" /\ last.ret # NONE) =>
        prev_pos = reqs[last.ret].pos + reqs[last.ret].sectors

C5_Witness ==
    /\ last.op = "dispatch"
    /\ last.ret # NONE
    /\ reqs[last.ret].pos > 0
    /\ reqs[last.ret].sectors > 1

\* C6: every inserted request is in exactly one condition: pending once in
\* exactly one queue, returned by exactly one dispatch, or removed by exactly
\* one merge.  The links of the two lists stay those of two well formed rings.
C6_Conservation ==
    /\ \A r \in Created :
          Count(Higher, r) + Count(Lower, r) + Count(dispatch_q, r) + nmerged[r] = 1
    /\ \A r \in Requests \ Created :
          Count(Higher, r) + Count(Lower, r) + Count(dispatch_q, r) + nmerged[r] = 0
    /\ \A n \in Nodes : prev[next[n]] = n /\ next[prev[n]] = n

C6_Witness ==
    /\ \E r \in Created : Count(dispatch_q, r) = 1
    /\ \E r \in Created : nmerged[r] = 1
    /\ \E r \in Created : Count(Higher, r) + Count(Lower, r) = 1

\* C7: under LiveSpec, if the host never destroys the scheduler, the queues
\* are eventually empty for good and every request created has then been
\* returned by dispatch or removed by a merge; and every dispatch with n > 0
\* requests pending returns one of them and leaves n - 1 pending, a dispatch
\* with none pending returns none.
Drained ==
    /\ QueuesEmpty
    /\ \A r \in Created : Count(dispatch_q, r) + nmerged[r] = 1

C7_Conservation ==
    /\ ([](status = "running") => <>[]Drained)
    /\ [][last'.op = "dispatch" =>
            IF Pending = {}
            THEN last'.ret = NONE /\ Pending' = {} /\ dispatch_q' = dispatch_q
            ELSE /\ last'.ret \in Pending
                 /\ Pending' = Pending \ {last'.ret}
                 /\ dispatch_q' = Append(dispatch_q, last'.ret)]_vars

C7_Witness ==
    /\ Len(reqs) = NumReq
    /\ Len(dispatch_q) = NumReq
    /\ Drained
    /\ last.op = "dispatch"
    /\ last.ret = NONE

\* C8: exit_queue succeeds exactly when both queues are empty and hits a
\* BUG_ON exactly when one of them is not; it never returns with a request
\* pending.
C8_Destroy ==
    /\ last.op = "exit" =>
          /\ status \in {"exited", "BUG"}
          /\ status = "exited" <=> QueuesEmpty
          /\ status = "BUG" <=> ~QueuesEmpty
    /\ status = "exited" => Pending = {}
    /\ status # "running" => last.op = "exit"

C8_Witness ==
    /\ last.op = "exit"
    /\ status = "BUG"
    /\ Higher = <<>>
    /\ Lower # <<>>

\* C9: a merge that removes the pending request s takes exactly s off the
\* queue that holds it, leaves the other entries of both queues in their
\* order, and s is never dispatched afterwards.  After A and B are inserted
\* at one sector and B is merged away, dispatch returns A once and then none.
ScenarioC ==
    (/\ Len(reqs) = 2
     /\ reqs[1].pos = reqs[2].pos
     /\ nmerged[1] = 0
     /\ nmerged[2] = 1
     /\ last.op = "dispatch") =>
        /\ dispatch_q = <<1>>
        /\ QueuesEmpty
        /\ last.ret \in {1, NONE}

C9_MergeRemove ==
    /\ [][last'.op = "merge" =>
            LET s == last'.rq
            IN  /\ Count(Higher, s) + Count(Lower, s) = 1
                /\ Higher' = Without(Higher, s)
                /\ Lower' = Without(Lower, s)
                /\ nmerged'[s] = 1
                /\ UNCHANGED <<prev_pos, dispatch_q, reqs>>]_vars
    /\ [](\A r \in Requests : nmerged[r] > 0 =>
              Count(dispatch_q, r) = 0 /\ r \notin Pending)
    /\ []ScenarioC

C9_Witness ==
    /\ Len(reqs) = 2
    /\ reqs[1] = reqs[2]
    /\ reqs[1].sectors = 1
    /\ nmerged[1] = 0
    /\ nmerged[2] = 1
    /\ dispatch_q = <<1>>
    /\ last.op = "dispatch"
    /\ last.ret = NONE

\* C10: a dispatch with both queues non-empty returns Lower's head if and
\* only if up_distance > down_distance, the two taken as the exact signed
\* differences of the sectors, and Higher's head otherwise.
C10_SignedComparison ==
    [][(last'.op = "dispatch" /\ BothNonEmpty) =>
          LET h == Higher[1]
              l == Lower[1]
              up_distance == blk_rq_pos(h) - prev_pos
              down_distance == prev_pos - blk_rq_pos(l)
          IN  last'.ret = IF up_distance > down_distance THEN l ELSE h]_vars

\* C11: dispatch returns none exactly when both queues are empty, and then
\* changes nothing; with one queue empty it returns the other's head; a
\* returned request was the head of Higher or of Lower, only it leaves its
\* queue, the other queue is as before, and it goes to the tail of the
\* dispatch list.
InSeq(seq, r) == \E i \in DOMAIN seq : seq[i] = r

C11_DispatchEffect ==
    [][last'.op = "dispatch" =>
          LET r == last'.ret
          IN  /\ r = NONE <=> QueuesEmpty
              /\ QueuesEmpty => UNCHANGED <<next, prev, prev_pos, dispatch_q>>
              /\ (Higher = <<>> /\ Lower # <<>>) => r = Lower[1]
              /\ (Lower = <<>> /\ Higher # <<>>) => r = Higher[1]
              /\ r # NONE =>
                    /\ \/ /\ Higher # <<>>
                          /\ r = Higher[1]
                          /\ Higher' = Tail(Higher)
                          /\ Lower' = Lower
                       \/ /\ Lower # <<>>
                          /\ r = Lower[1]
                          /\ Lower' = Tail(Lower)
                          /\ Higher' = Higher
                    /\ dispatch_q' = Append(dispatch_q, r)]_vars

C11_Witness ==
    /\ last.op = "dispatch"
    /\ last.ret # NONE
    /\ Len(dispatch_q) >= 2
    /\ dispatch_q[Len(dispatch_q)] = last.ret
    /\ Pending # {}

\* C12: the force flag has no effect: every dispatch step is a step of the
\* call with force set and of the call with force clear, so the two calls
\* return the same and lead to the same state.
C12_ForceIgnored ==
    [][last'.op = "dispatch" => (Dispatch(TRUE) /\ Dispatch(FALSE))]_vars

C12_Witness ==
    /\ last.op = "dispatch"
    /\ last.ret # NONE
    /\ Lower # <<>>
    /\ ENABLED Dispatch(TRUE)
    /\ ENABLED Dispatch(FALSE)

\* C13: for a pending request r, former returns the entry right before r in
\* the queue that holds r, none if r is its head; latter the entry right
\* after it, none if r is its tail; neither changes the queues or prev_pos.
QueueOf(r) == IF InSeq(Higher, r) THEN Higher ELSE Lower
IndexIn(seq, r) == CHOOSE i \in DOMAIN seq : seq[i] = r

C13_Neighbours ==
    /\ [](last.op = "former" =>
            LET q == QueueOf(last.rq)
                i == IndexIn(q, last.rq)
            IN  /\ InSeq(q, last.rq)
                /\ last.ret = IF i = 1 THEN NONE ELSE q[i - 1])
    /\ [](last.op = "latter" =>
            LET q == QueueOf(last.rq)
                i == IndexIn(q, last.rq)
            IN  /\ InSeq(q, last.rq)
                /\ last.ret = IF i = Len(q) THEN NONE ELSE q[i + 1])
    /\ [][last'.op \in {"former", "latter"} =>
            UNCHANGED <<next, prev, prev_pos, reqs, dispatch_q, nmerged, status>>]_vars

C13_Witness ==
    /\ last.op = "former"
    /\ last.ret # NONE
    /\ InSeq(Lower, last.rq)
    /\ InSeq(Lower, last.ret)

\* C14: prev_pos changes only in a dispatch that returns a request.
C14_LastPositionFrame ==
    [][prev_pos' # prev_pos => (last'.op = "dispatch" /\ last'.ret # NONE)]_vars

C14_Witness ==
    /\ last.op = "insert"
    /\ prev_pos > 0
    /\ reqs[last.rq].pos # prev_pos

\* C15: insert puts r in Lower if r.start_sector < prev_pos and in Higher
\* otherwise; a pending request stays in its queue whatever happens later.
C15_Membership ==
    [][/\ last'.op = "insert" =>
             LET r == last'.rq
             IN  IF reqs'[r].pos < prev_pos
                 THEN InSeq(Lower', r) /\ ~InSeq(Higher', r)
                 ELSE InSeq(Higher', r) /\ ~InSeq(Lower', r)
       /\ \A r \in Pending' :
             /\ InSeq(Higher, r) => InSeq(Higher', r)
             /\ InSeq(Lower, r) => InSeq(Lower', r)]_vars

C15_Witness ==
    /\ \E r \in Pending : InSeq(Higher, r) /\ reqs[r].pos < prev_pos
    /\ \E r \in Pending : InSeq(Lower, r)

\* C16: an insert of a request that is already in Higher or Lower is
\* rejected: it leaves both queues and prev_pos as they were.
C16_ReinsertRejected ==
    [][last'.op = "reinsert" =>
          /\ UNCHANGED <<next, prev, prev_pos>>
          /\ Higher' = Higher
          /\ Lower' = Lower]_vars

\* C17: an insert only places r: the queue it goes to is the old one with r
\* at one position (one entry longer, the others in their old order), the
\* other queue is unchanged, and so are prev_pos and the dispatch list.
C17_InsertFrame ==
    [][last'.op = "insert" =>
          LET r == last'.rq
          IN  /\ Count(Higher', r) + Count(Lower', r) = 1
              /\ Without(Higher', r) = Higher
              /\ Without(Lower', r) = Lower
              /\ Len(Higher') + Len(Lower') = Len(Higher) + Len(Lower) + 1
              /\ UNCHANGED <<prev_pos, dispatch_q, nmerged, status>>]_vars

C17_Witness ==
    /\ last.op = "insert"
    /\ Len(Higher) = 3
    /\ Higher[2] = last.rq

\* C18: no strict sweep.  Right after a dispatch that took a request from one
\* list and left entries on it, with the other list non-empty too, the next
\* dispatch gives that list no priority: it takes the head of the other list
\* exactly when the signed comparison favours it.  (The witness is such a
\* reversal in which the other head is the nearer one.)
OtherList(head) == IF head = HIGHER THEN LOWER ELSE HIGHER

C18_NoStrictSweep ==
    [][(/\ last.op = "dispatch"
        /\ last.ret # NONE
        /\ BothNonEmpty
        /\ last'.op = "dispatch") =>
          LET favours_lower == up_dist > down_dist
              turn == IF last.from = HIGHER THEN favours_lower ELSE ~favours_lower
          IN  /\ last'.rev <=> turn
              /\ last'.from = IF turn THEN OtherList(last.from) ELSE last.from
              /\ last'.ret = Walk(last'.from)[1]]_vars

\* The state right after a reversal: the request just returned was nearer to
\* prev_pos as it was before the call (the end of the request dispatched
\* before) than the head of the list the previous dispatch took from, and
\* neither difference was too wide for the int.
C18_Witness ==
    /\ last.op = "dispatch"
    /\ last.rev
    /\ Len(dispatch_q) >= 2
    /\ LET before == rq_end_sector(dispatch_q[Len(dispatch_q) - 1])
           stayed == Walk(OtherList(last.from))[1]
           near == Abs(blk_rq_pos(last.ret) - before)
           far == Abs(blk_rq_pos(stayed) - before)
       IN  /\ near < far
           /\ far < 2 ^ (IntBits - 1)

\* C19: with both queues non-empty, comparing the two distances as the code
\* holds them (truncated to int) gives the same answer as comparing the exact
\* differences, so the same head is selected.
C19_TruncationHarmless ==
    BothNonEmpty =>
        LET exact_up == blk_rq_pos(Higher[1]) - prev_pos
            exact_down == prev_pos - blk_rq_pos(Lower[1])
        IN  (up_dist > down_dist) <=> (exact_up > exact_down)

\* C20: after creation both queues are empty and prev_pos is 0, and as long
\* as no dispatch has returned a request prev_pos is 0 and Lower is empty:
\* every request inserted so far is in Higher.
C20_FreshScheduler ==
    /\ last.op = "init" => (QueuesEmpty /\ prev_pos = 0)
    /\ dispatch_q = <<>> =>
          /\ prev_pos = 0
          /\ Lower = <<>>
          /\ \A r \in Pending : InSeq(Higher, r)

C20_Witness ==
    /\ dispatch_q = <<>>
    /\ Len(Higher) = NumReq
    /\ \E r \in Pending : blk_rq_pos(r) = 0
    /\ \E r \in Pending : blk_rq_pos(r) > 0

====
